---- MODULE Spec2Model ----
(***************************************************************************)
(* Model of export_castle_anim_frames.py: the Blender operator             *)
(* ExportCastleAnimFrames, which writes a castle-anim-frames container by  *)
(* sampling frames of one or more animations and embedding one static      *)
(* scene document per sampled frame.                                       *)
(*                                                                         *)
(* Conventions                                                             *)
(*  - execute() is modelled statement group by statement group; pc is the  *)
(*    position of the (single) thread inside execute and its callees.      *)
(*  - output_file is the sequence of write() calls made on the output      *)
(*    file, each write a record [t, name, time].                           *)
(*  - Floats of action.frame_range are fixed-point numbers in halves       *)
(*    (the integer k stands for k/2).                                      *)
(*  - The host primitives (the X3D/glTF exporter, duplicates_make_real,    *)
(*    select_set, object.delete) are external: their outcomes are chosen   *)
(*    nondeterministically among the outcomes the code itself checks for.  *)
(***************************************************************************)
EXTENDS Integers, Sequences, FiniteSets, TLC

(***************************************************************************)
(* Bounds of the exploration.                                              *)
(***************************************************************************)
MaxSkip == 1
MaxFrame == 3
MaxActions == 2
NumObjects == 2
MaxDup == 1
MaxSampleEnd == 10
MaxSampleSkip == 4
MaxBoxObjects == 2

\* frame_skip: IntProperty(..., min=0, max=50)
FrameSkipMax == 50

Min2(a, b) == IF a < b THEN a ELSE b

Max2(a, b) == IF a > b THEN a ELSE b

VARIABLES
    self,             \* operator properties: actions_object, frame_skip, make_duplicates_real, frame_format
    actions,          \* bpy.data.actions: sequence of [name, frame_range, used, use_fake_user]
    scene_range,      \* <<context.scene.frame_start, context.scene.frame_end>>
    bound_action,     \* actions_object_o.animation_data.action ("" is None)
    pc,               \* position inside execute
    output_file,      \* writes made to the output file, in order
    file_open,        \* the handle returned by open(self.filepath, 'w') is open
    actions_to_export,\* local of execute
    original_action,  \* local of execute
    ai,               \* index of the for loop over actions_to_export
    anim,             \* arguments of the running output_one_animation: [name, frame_start, frame_end]
    frame,            \* local `frame` of output_one_animation
    call,             \* the running output_frame call: [frame, last]
    frame_current,    \* context.scene.frame_current (set by frame_set)
    objects,          \* context.scene.objects (set of object ids)
    selected,         \* ids of the selected objects
    old_objects,      \* self.old_objects
    old_objects_len,  \* self.old_objects_len
    exc,              \* the exception raised so far ([msg, arg]; msg "" is none)
    returned,         \* the value execute returned ("" while it has not returned)
    blocks,           \* log of output_one_animation calls: [name, frame_start, frame_end, frames, bound, closed]
    rebinds,          \* assignments to animation_data.action made inside the for loop
    restores,         \* assignments made by the finally clause
    hook,             \* what the last make_duplicates_real_after observed
    sel_before,       \* the selection when the last make_duplicates_real_before was entered
    world,            \* input of get_current_bounding_box: [objects, use_selection, global_matrix]
    bb,               \* its locals: [i, scene_box_empty, scene_box_min, scene_box_max, result]
    temp_file,        \* the temporary file temp_file_name exists
    steps             \* log of the running output_frame call: [s, frame, objects, out] per step

vars == <<self, actions, scene_range, bound_action, pc, output_file, file_open,
          actions_to_export, original_action, ai, anim, frame, call,
          frame_current, objects, selected, old_objects, old_objects_len,
          exc, returned, blocks, rebinds, restores, hook, sel_before, world, bb,
          temp_file, steps>>

(***************************************************************************)
(* Data.                                                                   *)
(***************************************************************************)
ActionNames == <<"Walk", "Run", "Idle", "Jump", "Fall">>

\* action.frame_range values, in halves: -1.5..0.5, 1.0..2.5, 0.0..0.0, 0.5..3.0, -0.5..-0.5
FrameRanges == << <<-3, 1>>, <<2, 5>>, <<0, 0>>, <<1, 6>>, <<-1, -1>> >>

NoExc == [msg |-> "", arg |-> ""]

NoHook == [ran |-> FALSE, new_len |-> 0, dups |-> 0, selected_count |-> 0,
           final_len |-> 0, old_len |-> 0, raised |-> FALSE]

NoCall == [frame |-> 0, last |-> FALSE]

NoAnim == [name |-> "", frame_start |-> 0, frame_end |-> 0]

Tok(t, name, time) == [t |-> t, name |-> name, time |-> time]

\* a step of output_frame: its name, context.scene.frame_current and the
\* scene's objects when it is made, and the number of writes made so far
Step(s, f, objs, out) == [s |-> s, frame |-> f, objects |-> objs, out |-> out]

\* int(x) of Python on a float: truncation toward zero (x in halves)
PyInt(x) == IF x >= 0 THEN x \div 2 ELSE -((-x) \div 2)

\* the filter of execute's gathering loop
IncludeActionAnd(a) == a.used /\ a.use_fake_user

IncludeAction(a) == a.used \/ a.use_fake_user

\* line 467
HasActionsGe(n) == n >= 0

HasActions(n) == n > 0

RECURSIVE Gather(_, _)
Gather(as, i) ==
    IF i > Len(as) THEN <<>>
    ELSE (IF IncludeAction(as[i]) THEN <<i>> ELSE <<>>) \o Gather(as, i + 1)

\* condition of the while loop of output_one_animation
WhileCondLe(f, frame_end) == f <= frame_end

WhileCond(f, frame_end) == f < frame_end

\* the stride of the while loop
NextFrameOff(f, frame_skip) == f + 2 + frame_skip

NextFrame(f, frame_skip) == f + 1 + frame_skip

(***************************************************************************)
(* Initial states: the operator's properties and the host scene.           *)
(***************************************************************************)
ActionAt(i, used, fake) ==
    [name |-> ActionNames[i], frame_range |-> FrameRanges[i],
     used |-> used, use_fake_user |-> fake]

ActionLists ==
    UNION { { [i \in 1..n |-> ActionAt(i, u[i], k[i])] :
                u \in [1..n -> BOOLEAN], k \in [1..n -> BOOLEAN] } : n \in 0..MaxActions }

InitCommon ==
    /\ output_file = <<>>
    /\ file_open = FALSE
    /\ actions_to_export = <<>>
    /\ original_action = ""
    /\ ai = 0
    /\ anim = NoAnim
    /\ frame = 0
    /\ call = NoCall
    /\ frame_current = 0
    /\ old_objects = {}
    /\ old_objects_len = 0
    /\ exc = NoExc
    /\ returned = ""
    /\ blocks = <<>>
    /\ rebinds = 0
    /\ restores = 0
    /\ hook = NoHook
    /\ sel_before = {}
    /\ temp_file = FALSE
    /\ steps = <<>>

NoWorld == [objects |-> <<>>, use_selection |-> FALSE, global_matrix |-> <<>>]

NoBox == [i |-> 0, scene_box_empty |-> TRUE, scene_box_min |-> <<0, 0, 0>>,
          scene_box_max |-> <<0, 0, 0>>, result |-> <<>>]

Init ==
    /\ InitCommon
    /\ pc = "begin"
    /\ \E skip \in 0..Min2(MaxSkip, FrameSkipMax), mdr \in BOOLEAN, ao \in {"", "Armature"} :
          self = [actions_object |-> ao, frame_skip |-> skip,
                  make_duplicates_real |-> mdr, frame_format |-> "GLTF"]
    /\ objects = 1..NumObjects
    /\ selected \in {{}, {1}}
    /\ world = NoWorld
    /\ bb = NoBox
    /\ IF self.actions_object = ""
       THEN /\ actions = <<>>
            /\ bound_action = ""
            /\ \E s \in 0..1 : \E e \in s..MaxFrame : scene_range = <<s, e>>
       ELSE /\ actions \in ActionLists
            /\ \E b \in 0..(IF Len(actions) > 0 THEN 1 ELSE 0) :
                  bound_action = IF b = 0 THEN "" ELSE actions[b].name
            /\ scene_range = <<1, 1>>

(***************************************************************************)
(* execute, lines 445-491.                                                 *)
(***************************************************************************)
\* the arguments of the call of line 486
SceneAnimationSwapped(range) ==
    [name |-> "animation", frame_start |-> range[2], frame_end |-> range[1]]

SceneAnimation(range) ==
    [name |-> "animation", frame_start |-> range[1], frame_end |-> range[2]]

\* the arguments of the call of line 476, from lines 471-473
ActionAnimation(action) ==
    [name |-> action.name,
     frame_start |-> PyInt(action.frame_range[1]),
     frame_end |-> PyInt(action.frame_range[2])]

Raise(e) ==
    \* an exception leaving output_one_animation: inside the try of Mode B
    \* the finally clause runs next, in Mode A execute is left at once
    /\ exc' = e
    /\ pc' = IF self.actions_object # "" THEN "finally" ELSE "done"

ExecuteBegin ==
    /\ pc = "begin"
    /\ file_open' = TRUE
    /\ output_file' = output_file \o <<Tok("xml", "", 0), Tok("animations", "", 0)>>
    /\ IF self.actions_object # ""
       THEN /\ pc' = "gather"
            /\ anim' = anim
       ELSE /\ pc' = "anim"
            /\ anim' = SceneAnimation(scene_range)
    /\ UNCHANGED <<temp_file, steps, world, bb, self, actions, scene_range, bound_action, actions_to_export,
                   original_action, ai, frame, call, frame_current, objects,
                   selected, old_objects, old_objects_len, exc, returned, blocks,
                   rebinds, restores, hook, sel_before>>

GatherActions ==
    /\ pc = "gather"
    /\ actions_to_export' = Gather(actions, 1)
    /\ IF HasActions(Len(actions_to_export'))
       THEN /\ original_action' = bound_action
            /\ ai' = 1
            /\ pc' = "for"
            /\ exc' = exc
       ELSE /\ exc' = [msg |-> "No action found on object", arg |-> self.actions_object]
            /\ pc' = "done"
            /\ UNCHANGED <<original_action, ai>>
    /\ UNCHANGED <<temp_file, steps, world, bb, self, actions, scene_range, bound_action, output_file, file_open,
                   anim, frame, call, frame_current, objects, selected, old_objects,
                   old_objects_len, returned, blocks, rebinds, restores, hook,
                   sel_before>>

\* one iteration header of `for action in actions_to_export`, lines 470-476
ForAction ==
    /\ pc = "for"
    /\ IF ai <= Len(actions_to_export)
       THEN LET action == actions[actions_to_export[ai]] IN
            /\ bound_action' = action.name
            /\ rebinds' = rebinds + 1
            /\ anim' = ActionAnimation(action)
            /\ pc' = "anim"
       ELSE /\ pc' = "finally"
            /\ UNCHANGED <<bound_action, rebinds, anim>>
    /\ UNCHANGED <<temp_file, steps, world, bb, self, actions, scene_range, output_file, file_open,
                   actions_to_export, original_action, ai, frame, call,
                   frame_current, objects, selected, old_objects, old_objects_len,
                   exc, returned, blocks, restores, hook, sel_before>>

\* the value the finally clause assigns
RestoredActionKeep(orig, cur) == cur

RestoredAction(orig, cur) == orig

\* where control goes after the finally clause: a pending exception is
\* raised again, otherwise execute goes on to line 488
AfterFinallySwallow(e) == "close"

AfterFinally(e) == IF e.msg # "" THEN "done" ELSE "close"

Finally ==
    /\ pc = "finally"
    /\ bound_action' = RestoredAction(original_action, bound_action)
    /\ restores' = restores + 1
    /\ pc' = AfterFinally(exc)
    /\ UNCHANGED <<temp_file, steps, world, bb, self, actions, scene_range, output_file, file_open,
                   actions_to_export, original_action, ai, anim, frame, call,
                   frame_current, objects, selected, old_objects, old_objects_len,
                   exc, returned, blocks, rebinds, hook, sel_before>>

ExecuteEnd ==
    /\ pc = "close"
    /\ output_file' = Append(output_file, Tok("/animations", "", 0))
    /\ file_open' = FALSE
    /\ returned' = "FINISHED"
    /\ pc' = "done"
    /\ UNCHANGED <<temp_file, steps, world, bb, self, actions, scene_range, bound_action, actions_to_export,
                   original_action, ai, anim, frame, call, frame_current, objects,
                   selected, old_objects, old_objects_len, exc, blocks, rebinds,
                   restores, hook, sel_before>>

(***************************************************************************)
(* output_one_animation, lines 428-442.                                    *)
(***************************************************************************)
AnimationOpen ==
    /\ pc = "anim"
    /\ output_file' = Append(output_file, Tok("animation", anim.name, 0))
    /\ frame' = anim.frame_start
    /\ blocks' = Append(blocks, [name |-> anim.name, frame_start |-> anim.frame_start,
                                 frame_end |-> anim.frame_end, frames |-> <<>>,
                                 bound |-> bound_action, closed |-> FALSE])
    /\ pc' = "while"
    /\ UNCHANGED <<temp_file, steps, world, bb, self, actions, scene_range, bound_action, file_open,
                   actions_to_export, original_action, ai, anim, call,
                   frame_current, objects, selected, old_objects, old_objects_len,
                   exc, returned, rebinds, restores, hook, sel_before>>

\* lines 394-398 and 419-420: the hooks run only with make_duplicates_real
AfterFrameSet(make_duplicates_real) == IF make_duplicates_real THEN "pre" ELSE "bbox"

AfterFrameCloseNoHook(make_duplicates_real) == "ret"

AfterFrameClose(make_duplicates_real) == IF make_duplicates_real THEN "post" ELSE "ret"

\* the loop test, the call of output_frame it leads to (inside the loop, or
\* the unconditional one after it) and the call's first statement, frame_set
WhileTest ==
    /\ pc = "while"
    /\ call' = IF WhileCond(frame, anim.frame_end)
               THEN [frame |-> frame, last |-> FALSE]
               ELSE [frame |-> anim.frame_end, last |-> TRUE]
    /\ frame_current' = call'.frame
    /\ blocks' = [blocks EXCEPT ![Len(blocks)].frames = Append(@, call'.frame)]
    /\ steps' = <<Step("frame_set", frame_current', objects, Len(output_file))>>
    /\ pc' = AfterFrameSet(self.make_duplicates_real)
    /\ UNCHANGED <<temp_file, world, bb, self, actions, scene_range, bound_action, output_file, file_open,
                   actions_to_export, original_action, ai, anim, frame, objects,
                   selected, old_objects, old_objects_len, exc, returned, rebinds,
                   restores, hook, sel_before>>

\* output_frame has returned: `frame += 1 + self.frame_skip` inside the loop,
\* or the fall through to the closing tag after the last call
FrameReturn ==
    /\ pc = "ret"
    /\ IF call.last
       THEN /\ pc' = "anim_close"
            /\ frame' = frame
       ELSE /\ frame' = NextFrame(frame, self.frame_skip)
            /\ pc' = "while"
    /\ UNCHANGED <<temp_file, steps, world, bb, self, actions, scene_range, bound_action, output_file, file_open,
                   actions_to_export, original_action, ai, anim, call,
                   frame_current, objects, selected, old_objects, old_objects_len,
                   exc, returned, blocks, rebinds, restores, hook, sel_before>>

AnimationClose ==
    /\ pc = "anim_close"
    /\ output_file' = Append(output_file, Tok("/animation", "", 0))
    /\ blocks' = [blocks EXCEPT ![Len(blocks)].closed = TRUE]
    /\ IF self.actions_object # ""
       THEN /\ ai' = ai + 1
            /\ pc' = "for"
       ELSE /\ ai' = ai
            /\ pc' = "close"
    /\ UNCHANGED <<temp_file, steps, world, bb, self, actions, scene_range, bound_action, file_open,
                   actions_to_export, original_action, anim, frame, call,
                   frame_current, objects, selected, old_objects, old_objects_len,
                   exc, returned, rebinds, restores, hook, sel_before>>

(***************************************************************************)
(* output_frame, lines 378-420.                                            *)
(***************************************************************************)
\* lines 397-398: the bounding box, of the scene as it is now
BoundingBox ==
    /\ pc = "bbox"
    /\ steps' = Append(steps, Step("bbox", frame_current, objects, Len(output_file)))
    /\ pc' = "frame_open"
    /\ UNCHANGED <<temp_file, world, bb, self, actions, scene_range, bound_action,
                   output_file, file_open, actions_to_export, original_action, ai,
                   anim, frame, call, frame_current, objects, selected, old_objects,
                   old_objects_len, exc, returned, blocks, rebinds, restores, hook,
                   sel_before>>

\* lines 400-410: the <frame ...> line
FrameOpen ==
    /\ pc = "frame_open"
    /\ output_file' = Append(output_file,
                             Tok("frame", "", call.frame - anim.frame_start))
    /\ steps' = Append(steps, Step("frame_open", frame_current, objects, Len(output_file')))
    /\ pc' = "export"
    /\ UNCHANGED <<temp_file, world, bb, self, actions, scene_range, bound_action, file_open,
                   actions_to_export, original_action, ai, anim, frame, call,
                   frame_current, objects, selected, old_objects, old_objects_len,
                   exc, returned, blocks, rebinds, restores, hook, sel_before>>

(***************************************************************************)
(* output_frame_x3d, lines 304-337, and output_frame_gltf, lines 339-376,  *)
(* called at lines 412-415.                                                *)
(***************************************************************************)
\* lines 314-327 and 349-368: the external exporter wrote the temporary file
ExportWrite ==
    /\ pc = "export"
    /\ temp_file' = TRUE
    /\ steps' = Append(steps, Step("export", frame_current, objects, Len(output_file)))
    /\ pc' = "read"
    /\ UNCHANGED <<world, bb, self, actions, scene_range, bound_action, output_file,
                   file_open, actions_to_export, original_action, ai, anim, frame,
                   call, frame_current, objects, selected, old_objects,
                   old_objects_len, exc, returned, blocks, rebinds, restores, hook,
                   sel_before>>

\* lines 330-337 and 371-376: the file is read and removed, its contents
\* are embedded
ExportOk ==
    /\ pc = "read"
    /\ temp_file' = FALSE            \* os.remove, lines 332 and 373
    /\ output_file' = Append(output_file, Tok("payload", self.frame_format, 0))
    /\ pc' = "frame_close"
    /\ UNCHANGED <<steps, world, bb, self, actions, scene_range, bound_action, file_open,
                   actions_to_export, original_action, ai, anim, frame, call,
                   frame_current, objects, selected, old_objects, old_objects_len,
                   exc, returned, blocks, rebinds, restores, hook, sel_before>>

\* lines 330-331 and 371-372: open() or read() of the temporary file raised
\* (the document the exporter wrote cannot be read or decoded)
ReadFail ==
    /\ pc = "read"
    /\ Raise([msg |-> "unreadable output", arg |-> self.frame_format])
    /\ UNCHANGED <<temp_file, steps, world, bb, self, actions, scene_range, bound_action, output_file, file_open,
                   actions_to_export, original_action, ai, anim, frame, call,
                   frame_current, objects, selected, old_objects, old_objects_len,
                   returned, blocks, rebinds, restores, hook, sel_before>>

\* lines 314-327 and 349-368: the external exporter raised
ExportFail ==
    /\ pc = "export"
    /\ Raise([msg |-> "exporter failed", arg |-> self.frame_format])
    /\ steps' = Append(steps, Step("export", frame_current, objects, Len(output_file)))
    /\ UNCHANGED <<temp_file, world, bb, self, actions, scene_range, bound_action, output_file, file_open,
                   actions_to_export, original_action, ai, anim, frame, call,
                   frame_current, objects, selected, old_objects, old_objects_len,
                   returned, blocks, rebinds, restores, hook, sel_before>>

\* line 417
FrameClose ==
    /\ pc = "frame_close"
    /\ output_file' = Append(output_file, Tok("/frame", "", 0))
    /\ steps' = Append(steps, Step("frame_close", frame_current, objects, Len(output_file')))
    /\ pc' = AfterFrameClose(self.make_duplicates_real)
    /\ UNCHANGED <<temp_file, world, bb, self, actions, scene_range, bound_action, file_open,
                   actions_to_export, original_action, ai, anim, frame, call,
                   frame_current, objects, selected, old_objects, old_objects_len,
                   exc, returned, blocks, rebinds, restores, hook, sel_before>>

(***************************************************************************)
(* make_duplicates_real_before, lines 533-546.                             *)
(* duplicates_make_real is external: it creates a set of new objects, and  *)
(* (the case the check of line 565 is written for) may lose an object.     *)
(***************************************************************************)
FreshIds == (NumObjects + 1)..(NumObjects + MaxDup)

PreHook ==
    /\ pc = "pre"
    /\ old_objects' = objects
    /\ old_objects_len' = Cardinality(objects)
    /\ sel_before' = selected
    /\ \E created \in SUBSET (FreshIds \ objects),
          removed \in {{}} \cup {{o} : o \in {x \in objects : \A y \in objects : x <= y}} :
          \* objects are interchangeable here: the one lost is the first
          /\ objects' = (objects \ removed) \cup created
          \* select_all(action='SELECT'), then the new objects come selected
          /\ selected' = objects'
    /\ steps' = Append(steps, Step("pre", frame_current, objects', Len(output_file)))
    /\ pc' = "bbox"
    /\ UNCHANGED <<temp_file, world, bb, self, actions, scene_range, bound_action, output_file, file_open,
                   actions_to_export, original_action, ai, anim, frame, call,
                   frame_current, exc, returned, blocks, rebinds, restores, hook>>

(***************************************************************************)
(* make_duplicates_real_after, lines 561-593.                              *)
(* select_set and object.delete are external: select_set(True) may leave   *)
(* an object unselected, delete may leave a selected object in the scene.  *)
(***************************************************************************)
\* line 565
FewerObjects(new_objects_len, old_len) == new_objects_len < old_len

\* line 569
Duplicated(new_objects, old) == { item \in new_objects : item \notin old }

\* line 586
SelectMismatch(selected_count, n_duplicated) == selected_count # n_duplicated

\* line 592
FinalMismatchLt(final_objects_len, old_len) == final_objects_len < old_len

FinalMismatch(final_objects_len, old_len) == final_objects_len # old_len

PostHook ==
    /\ pc = "post"
    /\ LET new_objects == objects
           new_objects_len == Cardinality(new_objects)
           duplicated_objects == Duplicated(new_objects, old_objects)
           n_dup == Cardinality(duplicated_objects)
           seen == [ran |-> TRUE, new_len |-> new_objects_len, dups |-> n_dup,
                    selected_count |-> 0, final_len |-> new_objects_len,
                    old_len |-> old_objects_len, raised |-> FALSE]
       IN
       IF FewerObjects(new_objects_len, old_objects_len)
       THEN /\ Raise([msg |-> "less objects", arg |-> ""])
            /\ hook' = [seen EXCEPT !.raised = TRUE]
            /\ UNCHANGED <<objects, selected>>
       ELSE IF n_dup # 0
       THEN \E unselected \in SUBSET duplicated_objects :
              LET now_selected == duplicated_objects \ unselected
                  selected_count == Cardinality(now_selected)
              IN
              IF SelectMismatch(selected_count, n_dup)
              THEN /\ Raise([msg |-> "did not select as many as expected", arg |-> ""])
                   /\ hook' = [seen EXCEPT !.raised = TRUE,
                                           !.selected_count = selected_count]
                   /\ selected' = now_selected
                   /\ objects' = objects
              ELSE \E survivors \in SUBSET now_selected :
                     LET final == objects \ (now_selected \ survivors)
                         final_objects_len == Cardinality(final)
                         seen2 == [seen EXCEPT !.selected_count = selected_count,
                                               !.final_len = final_objects_len]
                     IN
                     /\ objects' = final
                     /\ selected' = survivors
                     /\ IF FinalMismatch(final_objects_len, old_objects_len)
                        THEN /\ Raise([msg |-> "not as many objects as at the beginning",
                                       arg |-> ""])
                             /\ hook' = [seen2 EXCEPT !.raised = TRUE]
                        ELSE /\ pc' = "ret"
                             /\ exc' = exc
                             /\ hook' = seen2
       ELSE /\ UNCHANGED <<objects, selected>>
            /\ IF FinalMismatch(new_objects_len, old_objects_len)
               THEN /\ Raise([msg |-> "not as many objects as at the beginning",
                              arg |-> ""])
                    /\ hook' = [seen EXCEPT !.raised = TRUE]
               ELSE /\ pc' = "ret"
                    /\ exc' = exc
                    /\ hook' = seen
    /\ steps' = Append(steps, Step("post", frame_current, objects', Len(output_file)))
    /\ UNCHANGED <<temp_file, world, bb, self, actions, scene_range, bound_action, output_file, file_open,
                   actions_to_export, original_action, ai, anim, frame, call,
                   frame_current, old_objects, old_objects_len, returned, blocks,
                   rebinds, restores, sel_before>>

(***************************************************************************)
(* The export run.                                                         *)
(***************************************************************************)
Next ==
    \/ ExecuteBegin
    \/ GatherActions
    \/ ForAction
    \/ AnimationOpen
    \/ WhileTest
    \/ PreHook
    \/ BoundingBox
    \/ FrameOpen
    \/ ExportWrite
    \/ ExportOk
    \/ ReadFail
    \/ ExportFail
    \/ FrameClose
    \/ PostHook
    \/ FrameReturn
    \/ AnimationClose
    \/ Finally
    \/ ExecuteEnd

Spec == Init /\ [][Next]_vars

(***************************************************************************)
(* Runs over the scene's frame range (actions_object empty) in which the   *)
(* host primitives behave: wider frame ranges and skips for the sampling   *)
(* of frames.                                                              *)
(***************************************************************************)
InitSample ==
    /\ InitCommon
    /\ pc = "begin"
    /\ \E skip \in 0..Min2(MaxSampleSkip, FrameSkipMax), fmt \in {"GLTF", "X3D"} :
          self = [actions_object |-> "", frame_skip |-> skip,
                  make_duplicates_real |-> FALSE, frame_format |-> fmt]
    /\ objects = 1..NumObjects
    /\ selected = {}
    /\ world = NoWorld
    /\ bb = NoBox
    /\ actions = <<>>
    /\ bound_action = ""
    /\ \E s \in -1..1 : \E e \in s..MaxSampleEnd : scene_range = <<s, e>>

NextSample ==
    \/ ExecuteBegin
    \/ AnimationOpen
    \/ WhileTest
    \/ BoundingBox
    \/ FrameOpen
    \/ ExportWrite
    \/ ExportOk
    \/ FrameClose
    \/ FrameReturn
    \/ AnimationClose
    \/ ExecuteEnd

SpecSample == InitSample /\ [][NextSample]_vars

(***************************************************************************)
(* get_current_bounding_box, lines 202-270, and is_bound_box_empty,        *)
(* lines 189-200.                                                          *)
(* Coordinates are integers.  A 4x4 matrix is [m, t]: the 3x3 linear part  *)
(* m (a tuple of rows) and the translation t.  The returned centre is      *)
(* kept as center2, the numerator of (min + max) / 2.0.                    *)
(***************************************************************************)
Identity3 == << <<1, 0, 0>>, <<0, 1, 0>>, <<0, 0, 1>> >>

Mat(m, t) == [m |-> m, t |-> t]

\* Matrix @ Vector(corner): the corner is extended by w = 1
Apply(mx, v) ==
    [k \in 1..3 |-> mx.m[k][1] * v[1] + mx.m[k][2] * v[2] + mx.m[k][3] * v[3] + mx.t[k]]

\* the 8 corners of ob.bound_box, in Blender's order, of the local box lo..hi
BoundBox(lo, hi) ==
    << <<lo[1], lo[2], lo[3]>>, <<lo[1], lo[2], hi[3]>>,
       <<lo[1], hi[2], hi[3]>>, <<lo[1], hi[2], lo[3]>>,
       <<hi[1], lo[2], lo[3]>>, <<hi[1], lo[2], hi[3]>>,
       <<hi[1], hi[2], hi[3]>>, <<hi[1], hi[2], lo[3]>> >>

\* `f != -1` of line 198.  f is an element of the iteration over
\* ob.bound_box: a corner, that is a 3-component vector (line 232 builds
\* Vector(corner) from the same iteration).  In Python a sequence of
\* numbers is never equal to a number, so the comparison is always true.
DiffersFromNumber(f, n) == TRUE

\* lines 197-200
is_bound_box_empty(bound_box) ==
    \A k \in 1..Len(bound_box) : ~DiffersFromNumber(bound_box[k], -1)

\* the tuple of line 227
ExcludedTypes == {"ARMATURE", "LATTICE", "EMPTY", "CAMERA", "LAMP", "SPEAKER"}

\* lines 218-221
Candidates(w) ==
    IF w.use_selection
    THEN SelectSeq(w.objects, LAMBDA obj : obj.visible /\ obj.selected)
    ELSE SelectSeq(w.objects, LAMBDA obj : obj.visible)

\* the condition of lines 227-228
Contributes(ob) ==
    /\ ob.type \notin ExcludedTypes
    /\ ~is_bound_box_empty(ob.bound_box)

\* line 232
ObjectBoxPoints(w, ob) ==
    [k \in 1..Len(ob.bound_box) |->
        Apply(w.global_matrix, Apply(ob.matrix_world, ob.bound_box[k]))]

\* lines 235-243: the running minimum and maximum over the points
RECURSIVE FoldMin(_, _, _)
FoldMin(points, k, acc) ==
    IF k > Len(points) THEN acc
    ELSE FoldMin(points, k + 1, [a \in 1..3 |-> Min2(points[k][a], acc[a])])

RECURSIVE FoldMax(_, _, _)
FoldMax(points, k, acc) ==
    IF k > Len(points) THEN acc
    ELSE FoldMax(points, k + 1, [a \in 1..3 |-> Max2(points[k][a], acc[a])])

ObjectBoxMin(points) == FoldMin(points, 1, points[1])

ObjectBoxMax(points) == FoldMax(points, 1, points[1])

\* lines 259-268
BoxResult(b) ==
    IF b.scene_box_empty
    THEN [center2 |-> <<0, 0, 0>>, size |-> <<-1, -1, -1>>]
    ELSE [center2 |-> [a \in 1..3 |-> b.scene_box_min[a] + b.scene_box_max[a]],
          size |-> [a \in 1..3 |-> b.scene_box_max[a] - b.scene_box_min[a]]]

\* lines 246-255: the update of scene_box_min and of scene_box_max
SceneBoxMinLast(scene_box_empty, scene_box_min, object_box_min) == object_box_min

SceneBoxMin(scene_box_empty, scene_box_min, object_box_min) ==
    IF scene_box_empty THEN object_box_min
    ELSE [a \in 1..3 |-> Min2(scene_box_min[a], object_box_min[a])]

SceneBoxMax(scene_box_empty, scene_box_max, object_box_max) ==
    IF scene_box_empty THEN object_box_max
    ELSE [a \in 1..3 |-> Max2(scene_box_max[a], object_box_max[a])]

\* the body of `for ob in objects`, lines 226-256, on the locals b
Visit(b, w, ob) ==
    IF Contributes(ob)
    THEN LET points == ObjectBoxPoints(w, ob)
             object_box_min == ObjectBoxMin(points)
             object_box_max == ObjectBoxMax(points)
         IN [b EXCEPT
              !.i = @ + 1,
              !.scene_box_empty = FALSE,
              !.scene_box_min =
                  SceneBoxMin(b.scene_box_empty, b.scene_box_min, object_box_min),
              !.scene_box_max =
                  SceneBoxMax(b.scene_box_empty, b.scene_box_max, object_box_max)]
    ELSE [b EXCEPT !.i = @ + 1]

\* the whole loop, and the value get_current_bounding_box returns for w
RECURSIVE VisitAll(_, _, _)
VisitAll(b, w, cands) ==
    IF b.i > Len(cands) THEN b
    ELSE VisitAll(Visit(b, w, cands[b.i]), w, cands)

get_current_bounding_box(w) ==
    BoxResult(VisitAll([i |-> 1, scene_box_empty |-> TRUE,
                        scene_box_min |-> <<0, 0, 0>>, scene_box_max |-> <<0, 0, 0>>,
                        result |-> <<>>], w, Candidates(w)))

\* one iteration of `for ob in objects`, lines 225-256
BoxVisit ==
    /\ pc = "box_loop"
    /\ bb.i <= Len(Candidates(world))
    /\ bb' = Visit(bb, world, Candidates(world)[bb.i])
    /\ UNCHANGED <<temp_file, steps, world, self, actions, scene_range, bound_action, pc, output_file,
                   file_open, actions_to_export, original_action, ai, anim, frame,
                   call, frame_current, objects, selected, old_objects,
                   old_objects_len, exc, returned, blocks, rebinds, restores, hook,
                   sel_before>>

\* lines 258-270
BoxReturn ==
    /\ pc = "box_loop"
    /\ bb.i > Len(Candidates(world))
    /\ bb' = [bb EXCEPT !.result = BoxResult(bb)]
    /\ pc' = "box_done"
    /\ UNCHANGED <<temp_file, steps, world, self, actions, scene_range, bound_action, output_file,
                   file_open, actions_to_export, original_action, ai, anim, frame,
                   call, frame_current, objects, selected, old_objects,
                   old_objects_len, exc, returned, blocks, rebinds, restores, hook,
                   sel_before>>

(***************************************************************************)
(* Scenes for get_current_bounding_box.                                    *)
(***************************************************************************)
Obj(type, visible, sel, bound_box, matrix_world) ==
    [type |-> type, visible |-> visible, selected |-> sel,
     bound_box |-> bound_box, matrix_world |-> matrix_world]

Catalog ==
    << Obj("MESH", TRUE, TRUE, BoundBox(<<-1, -1, -1>>, <<1, 1, 1>>),
           Mat(Identity3, <<0, 0, 0>>)),
       Obj("MESH", TRUE, FALSE, BoundBox(<<0, 0, 0>>, <<2, 1, 3>>),
           Mat(Identity3, <<3, 0, -2>>)),
       Obj("MESH", FALSE, TRUE, BoundBox(<<-1, -1, -1>>, <<1, 1, 1>>),
           Mat(Identity3, <<-5, 5, 0>>)),
       Obj("MESH", TRUE, TRUE, BoundBox(<<-1, -1, -1>>, <<-1, -1, -1>>),
           Mat(Identity3, <<0, 0, 0>>)),
       Obj("EMPTY", TRUE, TRUE, BoundBox(<<0, 0, 0>>, <<0, 0, 0>>),
           Mat(Identity3, <<7, 7, 7>>)),
       Obj("LIGHT", TRUE, TRUE, BoundBox(<<0, 0, 0>>, <<0, 0, 0>>),
           Mat(Identity3, <<4, 1, -6>>)),
       Obj("CAMERA", TRUE, FALSE, BoundBox(<<0, 0, 0>>, <<0, 0, 0>>),
           Mat(Identity3, <<0, -8, 2>>)),
       Obj("MESH", TRUE, TRUE, BoundBox(<<0, 0, 0>>, <<1, 2, 1>>),
           Mat(<< <<0, -1, 0>>, <<1, 0, 0>>, <<0, 0, -2>> >>, <<-3, 0, 1>>)) >>

\* axis_conversion(...).to_4x4(): a signed permutation of the axes
GlobalMatrices ==
    { Mat(Identity3, <<0, 0, 0>>),
      Mat(<< <<1, 0, 0>>, <<0, 0, 1>>, <<0, -1, 0>> >>, <<0, 0, 0>>) }

Scenes ==
    UNION { [1..n -> 1..Len(Catalog)] : n \in 0..MaxBoxObjects }

InitBox ==
    /\ InitCommon
    /\ pc = "box_loop"
    /\ self = [actions_object |-> "", frame_skip |-> 0,
               make_duplicates_real |-> FALSE, frame_format |-> "GLTF"]
    /\ actions = <<>>
    /\ scene_range = <<1, 1>>
    /\ bound_action = ""
    /\ objects = {}
    /\ selected = {}
    /\ \E sc \in Scenes, sel \in BOOLEAN, g \in GlobalMatrices :
          world = [objects |-> [k \in 1..Len(sc) |-> Catalog[sc[k]]],
                   use_selection |-> sel, global_matrix |-> g]
    /\ bb = [NoBox EXCEPT !.i = 1]

NextBox == BoxVisit \/ BoxReturn

SpecBox == InitBox /\ [][NextBox]_vars

(***************************************************************************)
(* Properties of the frame sampling of output_one_animation.               *)
(***************************************************************************)
Divides(b) == (b.frame_end - b.frame_start) % (1 + self.frame_skip) = 0

\* C1: for range_start <= range_end, the frames emitted by one animation
\* block start with range_start and end with range_end, and every element
\* before the last one is below range_end and (but the first) exactly
\* 1 + skip above its predecessor.
C1_SampleShape ==
    \A k \in 1..Len(blocks) :
        LET b == blocks[k]
            n == Len(b.frames)
        IN (b.closed /\ b.frame_start <= b.frame_end) =>
              /\ n >= 1
              /\ b.frames[1] = b.frame_start
              /\ b.frames[n] = b.frame_end
              /\ \A i \in 1..(n - 1) : b.frames[i] < b.frame_end
              /\ \A i \in 2..(n - 1) :
                    /\ b.frames[i] > b.frames[i - 1]
                    /\ b.frames[i] = b.frames[i - 1] + 1 + self.frame_skip

C1_Witness ==
    \E k \in 1..Len(blocks) :
        /\ blocks[k].closed
        /\ Len(blocks[k].frames) >= 4
        /\ ~Divides(blocks[k])
        /\ self.frame_skip >= 2

\* C2 as stated: when 1 + skip divides range_end - range_start the block
\* ends with range_end emitted twice in a row, and the range 0..10 with
\* skip 4 gives 0, 5, 10, 10.
C2_DuplicateAtEnd ==
    \A k \in 1..Len(blocks) :
        LET b == blocks[k]
            n == Len(b.frames)
        IN (b.closed /\ b.frame_start <= b.frame_end /\ Divides(b)) =>
              /\ n >= 2
              /\ b.frames[n] = b.frame_end
              /\ b.frames[n - 1] = b.frame_end
              /\ (b.frame_start = 0 /\ b.frame_end = 10 /\ self.frame_skip = 4)
                    => b.frames = <<0, 5, 10, 10>>

\* C2 amended: when 1 + skip divides range_end - range_start the block
\* emits range_end exactly once, as its last element, after
\* (range_end - range_start) / (1 + skip) strided frames, and the range
\* 0..10 with skip 4 gives 0, 5, 10.
C2_EndEmittedOnce ==
    \A k \in 1..Len(blocks) :
        LET b == blocks[k]
            n == Len(b.frames)
        IN (b.closed /\ b.frame_start <= b.frame_end /\ Divides(b)) =>
              /\ n = (b.frame_end - b.frame_start) \div (1 + self.frame_skip) + 1
              /\ b.frames[n] = b.frame_end
              /\ \A i \in 1..(n - 1) : b.frames[i] # b.frame_end
              /\ (b.frame_start = 0 /\ b.frame_end = 10 /\ self.frame_skip = 4)
                    => b.frames = <<0, 5, 10>>

C2_Witness ==
    \E k \in 1..Len(blocks) :
        /\ blocks[k].closed
        /\ blocks[k].frame_start = 0
        /\ blocks[k].frame_end = 10
        /\ self.frame_skip = 4
        /\ blocks[k].frames = <<0, 5, 10>>

(***************************************************************************)
(* Properties of execute.                                                  *)
(***************************************************************************)
ModeB == self.actions_object # ""

Failed == exc.msg # ""

AnimationTags(w) == SelectSeq(w, LAMBDA x : x.t = "animation")

\* the actions the claims expect to be exported, in the order of bpy.data.actions
Expected == SelectSeq(actions, LAMBDA a : a.used \/ a.use_fake_user)

\* n is the float x (in halves) truncated toward zero
IsTruncation(n, x) ==
    IF x >= 0 THEN 2 * n <= x /\ x < 2 * n + 2
    ELSE 2 * n - 2 < x /\ x <= 2 * n

InsideAnimation ==
    pc \in {"anim", "while", "pre", "bbox", "frame_open", "export", "read",
            "frame_close", "post", "ret", "anim_close"}

\* C3: in Mode B with at least one action gathered, when execute ends,
\* normally or by an error raised at any frame of any action, the object's
\* bound action is the one bound before the first rebinding, and the
\* restoring assignment was made exactly once.
C3_ActionRestored ==
    /\ (ModeB /\ pc = "for" /\ rebinds = 0) => original_action = bound_action
    /\ restores <= 1
    /\ (ModeB /\ pc = "done" /\ Len(actions_to_export) > 0) =>
          /\ bound_action = original_action
          /\ restores = 1

C3_Witness ==
    /\ ModeB
    /\ pc = "done"
    /\ exc.msg = "exporter failed"
    /\ rebinds >= 2
    /\ Len(blocks[1].frames) >= 2
    /\ restores = 1
    /\ bound_action = original_action
    /\ original_action # ""

\* C4: in Mode B, when no action is referenced by the object and none has
\* the fake-user marker, execute fails with the 'No action found' error
\* naming the object, writes no <animation> element and never assigns the
\* object's action.
C4_NoActionFound ==
    (ModeB /\ Len(Expected) = 0) =>
        /\ rebinds = 0
        /\ restores = 0
        /\ Len(AnimationTags(output_file)) = 0
        /\ returned = ""
        /\ pc = "done" =>
              exc = [msg |-> "No action found on object", arg |-> self.actions_object]

C4_Witness ==
    /\ ModeB
    /\ Len(actions) >= 2
    /\ Len(Expected) = 0
    /\ pc = "done"
    /\ exc.msg = "No action found on object"
    /\ exc.arg = "Armature"

\* C5: in Mode B a successful run writes exactly one <animation name=...>
\* block per action that is referenced by the object or has the fake-user
\* marker, in the order of discovery, named after its action, sampled from
\* the action's truncated start frame to its truncated end frame, and
\* written while that action is the object's bound action.
C5_OneBlockPerAction ==
    /\ (ModeB /\ InsideAnimation) => bound_action = anim.name
    /\ (ModeB /\ returned = "FINISHED") =>
          /\ Len(blocks) = Len(Expected)
          /\ Len(AnimationTags(output_file)) = Len(Expected)
          /\ \A i \in 1..Len(Expected) :
                LET b == blocks[i]
                    a == Expected[i]
                IN /\ b.name = a.name
                   /\ AnimationTags(output_file)[i].name = a.name
                   /\ b.bound = a.name
                   /\ b.closed
                   /\ IsTruncation(b.frame_start, a.frame_range[1])
                   /\ IsTruncation(b.frame_end, a.frame_range[2])
                   /\ b.frames[1] = b.frame_start
                   /\ b.frames[Len(b.frames)] = b.frame_end

C5_Witness ==
    /\ ModeB
    /\ returned = "FINISHED"
    /\ Len(blocks) = 2
    /\ actions[1].used /\ ~actions[1].use_fake_user
    /\ ~actions[2].used /\ actions[2].use_fake_user
    /\ blocks[1].frame_start < 0

\* the nesting of the writes: the state reached from st by the writes i..
RECURSIVE Nesting(_, _, _)
Nesting(w, i, st) ==
    IF i > Len(w) THEN st
    ELSE LET t == w[i].t IN
         Nesting(w, i + 1,
            CASE st = "start" /\ t = "xml" -> "decl"
              [] st = "decl" /\ t = "animations" -> "root"
              [] st \in {"root", "root1"} /\ t = "animation" -> "block"
              [] st = "block" /\ t = "frame" -> "frame"
              [] st = "frame" /\ t = "payload" -> "payload"
              [] st = "payload" /\ t = "/frame" -> "block"
              [] st = "block" /\ t = "/animation" -> "root1"
              [] st = "root1" /\ t = "/animations" -> "end"
              [] OTHER -> "bad")

\* C6: on a successful run the writes are the XML declaration, <animations>,
\* one or more animation blocks and </animations> last, every <frame> being
\* followed by its payload and </frame> and lying inside an <animation>;
\* in Mode A there is exactly one block, named "animation", over the
\* scene's start/end frame range.
C6_WellNested ==
    (returned = "FINISHED") =>
        /\ Nesting(output_file, 1, "start") = "end"
        /\ output_file[Len(output_file)].t = "/animations"
        /\ ~ModeB =>
              /\ Len(blocks) = 1
              /\ AnimationTags(output_file) = <<Tok("animation", "animation", 0)>>
              /\ blocks[1].name = "animation"
              /\ blocks[1].frame_start = scene_range[1]
              /\ blocks[1].frame_end = scene_range[2]
              /\ blocks[1].frames[1] = scene_range[1]
              /\ blocks[1].frames[Len(blocks[1].frames)] = scene_range[2]

C6_Witness ==
    /\ returned = "FINISHED"
    /\ ~ModeB
    /\ scene_range[1] < scene_range[2]
    /\ Len(blocks[1].frames) >= 3
    /\ Nesting(output_file, 1, "start") = "end"

\* C7: once execute has failed nothing more is written to the output file,
\* the error stays with the caller and 'FINISHED' is never returned; a
\* failed run has not written </animations>.
C7_FailedRunStops ==
    [][ /\ Failed => /\ output_file' = output_file
                     /\ exc' = exc
                     /\ returned' = ""
        /\ exc'.msg # "" =>
              /\ \A i \in 1..Len(output_file') : output_file'[i].t # "/animations"
              /\ returned' = "" ]_vars

C7_Witness ==
    /\ ModeB
    /\ pc = "done"
    /\ exc.msg = "not as many objects as at the beginning"
    /\ restores = 1
    /\ output_file[Len(output_file)].t = "/frame"
    /\ returned = ""

(***************************************************************************)
(* Properties of the duplicate-realization hooks.                          *)
(***************************************************************************)
\* C8: with make_duplicates_real, after every output_frame that returns
\* normally the scene's objects are exactly those that existed before the
\* pre-hook and the selection is exactly the selection before the pre-hook.
C8_SceneRestored ==
    (self.make_duplicates_real /\ pc = "ret") =>
        /\ objects = old_objects
        /\ selected = sel_before

\* C9: the post-hook raises, aborting the run, when the object count it
\* finds is below the count recorded by the pre-hook, when the number of
\* objects it selected for deletion differs from the number of new objects,
\* or when the object count after deletion differs from the recorded
\* count; in every other case it returns without error.
C9_IntegrityChecks ==
    /\ hook.ran =>
          /\ hook.raised <=>
                \/ hook.new_len < hook.old_len
                \/ hook.selected_count # hook.dups /\ hook.new_len >= hook.old_len
                \/ hook.final_len # hook.old_len
          /\ hook.raised => Failed /\ returned = "" /\ pc \in {"finally", "done"}
    /\ (self.make_duplicates_real /\ pc = "ret") => ~hook.raised /\ ~Failed

C9_Witness ==
    /\ hook.ran
    /\ hook.raised
    /\ hook.new_len >= hook.old_len
    /\ hook.dups > 0
    /\ hook.selected_count = hook.dups
    /\ hook.final_len # hook.old_len
    /\ exc.msg = "not as many objects as at the beginning"

(***************************************************************************)
(* Properties of get_current_bounding_box.                                 *)
(***************************************************************************)
Sentinel == [center2 |-> <<0, 0, 0>>, size |-> <<-1, -1, -1>>]

AllMinusOne(bound_box) ==
    \A k \in 1..Len(bound_box) : \A a \in 1..3 : bound_box[k][a] = -1

Eligible(w, ob) ==
    /\ ob.visible
    /\ w.use_selection => ob.selected
    /\ ob.type \notin ExcludedTypes
    /\ ~AllMinusOne(ob.bound_box)

SomeEligible == \E k \in 1..Len(world.objects) : Eligible(world, world.objects[k])

\* C10: get_current_bounding_box returns center (0,0,0) and size
\* (-1,-1,-1) exactly when no object is eligible (visible, selected under
\* selection_only, not of an excluded type, local box not all -1), and with
\* an eligible object every component of the size is >= 0.
C10_SentinelIffNoneEligible ==
    (pc = "box_done") =>
        /\ (bb.result = Sentinel) <=> ~SomeEligible
        /\ SomeEligible => \A a \in 1..3 : bb.result.size[a] >= 0

\* the orderings of the objects of the scene w
Orderings(w) ==
    LET n == Len(w.objects) IN
    { [w EXCEPT !.objects = [k \in 1..n |-> w.objects[p[k]]]] :
        p \in { q \in [1..n -> 1..n] : \A i, j \in 1..n : q[i] = q[j] => i = j } }

\* C11: the bounding box returned for a scene is the one returned for every
\* other ordering of the same objects.
C11_OrderInvariant ==
    (pc = "box_done") =>
        \A w \in Orderings(world) : get_current_bounding_box(w) = bb.result

C11_Witness ==
    /\ pc = "box_done"
    /\ Len(Candidates(world)) >= 2
    /\ Contributes(Candidates(world)[1])
    /\ Contributes(Candidates(world)[2])
    /\ ObjectBoxPoints(world, Candidates(world)[1])
          # ObjectBoxPoints(world, Candidates(world)[2])
    /\ \E a \in 1..3 : bb.result.size[a] > 3

\* the type labels the host (Blender 2.80+, bl_info) gives to armatures,
\* lattices, empties, cameras, lights and speakers
HostNonRenderable == {"ARMATURE", "LATTICE", "EMPTY", "CAMERA", "LIGHT", "SPEAKER"}

WithoutNonRenderable(w) ==
    [w EXCEPT !.objects = SelectSeq(@, LAMBDA ob : ob.type \notin HostNonRenderable)]

\* C12: armatures, lattices, empties, cameras, lights and speakers never
\* contribute: the bounding box of a scene is the bounding box of the scene
\* with every such object removed.
C12_NonRenderableIgnored ==
    (pc = "box_done") =>
        get_current_bounding_box(WithoutNonRenderable(world)) = bb.result


(***************************************************************************)
(* Properties of the frame steps and of the files.                         *)
(***************************************************************************)
\* C13: no temporary frame document outlives the call of output_frame_x3d
\* or output_frame_gltf that created it: outside the span between the
\* exporter writing it and its being read, whether the call ended normally
\* or by an error raised after the exporter wrote it, the temporary file
\* does not exist (none at the next frame, none when the run ends).
C13_NoTempFileOutlives == temp_file => pc = "read"

StepNames == [i \in 1..Len(steps) |-> steps[i].s]

ExpectedSteps(make_duplicates_real) ==
    IF make_duplicates_real
    THEN <<"frame_set", "pre", "bbox", "frame_open", "export", "frame_close", "post">>
    ELSE <<"frame_set", "bbox", "frame_open", "export", "frame_close">>

IsPrefix(a, b) == Len(a) <= Len(b) /\ \A i \in 1..Len(a) : a[i] = b[i]

StepAt(name) == CHOOSE i \in 1..Len(steps) : steps[i].s = name

Done(name) == \E i \in 1..Len(steps) : steps[i].s = name

\* an output_frame call is running, or the run failed inside it
FrameInProgress ==
    /\ Len(steps) > 0
    /\ \/ pc \in {"pre", "bbox", "frame_open", "export", "read", "frame_close",
                  "post", "ret"}
       \/ Failed

\* C14: within every output_frame the steps occur in the order frame_set,
\* pre-hook (with make_duplicates_real), bounding box, <frame> written,
\* exporter invoked, </frame> written, post-hook (with make_duplicates_real);
\* every step sees the frame that was set and the bounding box sees the
\* scene the pre-hook left; an exporter error occurs after the <frame> line
\* and before </frame>, a post-hook integrity error after </frame>.
C14_StepOrder ==
    FrameInProgress =>
        /\ IsPrefix(StepNames, ExpectedSteps(self.make_duplicates_real))
        /\ pc = "ret" => StepNames = ExpectedSteps(self.make_duplicates_real)
        /\ \A i \in 1..Len(steps) : steps[i].frame = call.frame
        /\ (Done("bbox") /\ self.make_duplicates_real) =>
              steps[StepAt("bbox")].objects = steps[StepAt("pre")].objects
        /\ Done("bbox") => steps[StepAt("bbox")].out = steps[1].out
        /\ Done("frame_open") =>
              /\ steps[StepAt("frame_open")].out = steps[1].out + 1
              /\ output_file[steps[StepAt("frame_open")].out] =
                    Tok("frame", "", call.frame - anim.frame_start)
        /\ Done("export") =>
              steps[StepAt("export")].out = steps[StepAt("frame_open")].out
        /\ Done("frame_close") =>
              /\ steps[StepAt("frame_close")].out > steps[StepAt("export")].out
              /\ output_file[steps[StepAt("frame_close")].out].t = "/frame"
        /\ Done("post") =>
              steps[StepAt("post")].out = steps[StepAt("frame_close")].out
        /\ exc.msg \in {"exporter failed", "unreadable output"} =>
              /\ steps[Len(steps)].s = "export"
              /\ output_file[Len(output_file)].t = "frame"
        /\ hook.raised =>
              /\ steps[Len(steps)].s = "post"
              /\ output_file[Len(output_file)].t = "/frame"
              /\ Len(output_file) = steps[StepAt("frame_close")].out

C14_Witness ==
    /\ self.make_duplicates_real
    /\ hook.raised
    /\ Len(steps) = 7
    /\ call.frame > anim.frame_start
    /\ steps[1].objects # steps[3].objects
    /\ old_objects \subseteq steps[3].objects

\* C15: when execute ends, by returning or by raising the no-action-found,
\* the exporter's or a duplicate-realization integrity error, the output
\* file opened at its start has been closed.
C15_HandleClosed == (pc = "done") => ~file_open

====
